---------------------------- MODULE Spec2Model ----------------------------
(***************************************************************************)
(* A model of FileStructureGenerator's FileTreeNode                        *)
(* (src/src/tree/file_tree_node.py) and of the CLI commands that drive it  *)
(* (src/src/cli/cli_commands.py).                                          *)
(*                                                                         *)
(* Python values are tagged records, so that a value of the wrong type     *)
(* (a number where a string is expected, a dict where a list is expected)  *)
(* is a value of the model like any other.  A string is a sequence of      *)
(* one-character strings: startswith, os.path.join and the splitting of a  *)
(* path into its components are computed on the characters.                *)
(***************************************************************************)
EXTENDS Integers, Sequences, FiniteSets, TLC

VARIABLES
    cpc,       \* codec run: "args", "text", "built", "failed", "dumped", "loaded"
    args,      \* the arguments of FileTreeNode(name, type_str, children)
    built,     \* what the constructor call gave: a node or an exception
    text,      \* the JSON text json.dumps wrote / json.load reads
    loaded,    \* what __load_from_file gave: a node or an exception
    spc,       \* scan run: "start", "built", "failed"
    disk,      \* the directory tree on the host that build_from_directory reads
    add_hidden,\* the --add-hidden flag of the build command
    ft,        \* the node build_from_directory is called on, then its outcome
    fpc,       \* command chain: "ready", "aborted"
    hostfs,    \* the host's file system
    tree,      \* the tree the commands work on (the context's "ft")
    hist,      \* the calls made so far, each with what it did
    ppc,       \* print run: "ready", "printed", "aborted"
    obj_ft,    \* the context's "ft" the print command reads: a node or None
    print_hidden, \* the --print_hidden flag of the print command
    stdout     \* the lines written so far, one per print / click.echo call

codecVars == <<cpc, args, built, text, loaded>>
scanVars == <<spc, disk, add_hidden, ft>>
fsVars == <<fpc, hostfs, tree, hist>>
printVars == <<ppc, obj_ft, print_hidden, stdout>>
vars == <<codecVars, scanVars, fsVars, printVars>>

-----------------------------------------------------------------------------
(* Bounds *)

\* the largest tree (number of nodes) given to the constructor and the codec
MaxNodes == 4
\* the largest JSON document (number of node objects) given to __deserialize
MaxDocNodes == 3
\* the largest scanned directory (number of entries beneath it, at all depths)
MaxEntries == 3
\* the largest tree (number of nodes) saved and copied as a template
MaxTplNodes == 3
\* the number of calls of a command chain
MaxCalls == 2
\* the largest tree (number of nodes) given to print_tree
MaxPrintNodes == 4

-----------------------------------------------------------------------------
(* Python values *)

PyNone == [py |-> "None"]
PyStr(s) == [py |-> "str", s |-> s]
PyInt(n) == [py |-> "int", n |-> n]
PyBool(b) == [py |-> "bool", b |-> b]
PyList(xs) == [py |-> "list", items |-> xs]
PyDict(f) == [py |-> "dict", map |-> f]

\* bool(v): the truth value Python gives v in `if v`
Truthy(v) ==
    CASE v.py = "None" -> FALSE
      [] v.py = "bool" -> v.b
      [] v.py = "int" -> v.n # 0
      [] v.py = "str" -> Len(v.s) > 0
      [] v.py = "list" -> Len(v.items) > 0
      [] v.py = "dict" -> DOMAIN v.map # {}

FILE == PyStr(<<"f", "i", "l", "e">>)
DIRECTORY == PyStr(<<"d", "i", "r", "e", "c", "t", "o", "r", "y">>)
FOLDER == PyStr(<<"f", "o", "l", "d", "e", "r">>)

\* a call's outcome: the value returned, or the exception raised
Ok(v) == [ok |-> TRUE, val |-> v]
Raise(e) == [ok |-> FALSE, err |-> e]

-----------------------------------------------------------------------------
(* FileTreeNode.__init__ *)

\* children is PyNone or PyList(<<node, ...>>)
FileTreeNodeNoFileCheck(name, type_str, children) ==
    IF type_str \notin {FILE, DIRECTORY}
    THEN Raise("ValueError")
    ELSE Ok([name |-> name, type |-> type_str,
             children |-> IF children # PyNone THEN children.items ELSE <<>>])

FileTreeNode(name, type_str, children) ==
    IF type_str \notin {FILE, DIRECTORY}
    THEN Raise("ValueError")
    ELSE IF type_str = FILE /\ children # PyNone
    THEN Raise("ValueError")
    ELSE Ok([name |-> name, type |-> type_str,
             children |-> IF children # PyNone THEN children.items ELSE <<>>])

-----------------------------------------------------------------------------
(* FileTreeNode.__serialize / __deserialize *)

RECURSIVE node_to_dict(_)
node_to_dict(node) ==
    PyDict([k \in {"name", "type", "children"} |->
        CASE k = "name" -> node.name
          [] k = "type" -> node.type
          [] k = "children" ->
                IF Len(node.children) > 0
                THEN PyList([i \in 1..Len(node.children) |->
                                node_to_dict(node.children[i])])
                ELSE PyNone])

\* the keys of a dict in the order sort_keys=True emits them
SortedKeys(f) ==
    SelectSeq(<<"children", "name", "type">>, LAMBDA k : k \in DOMAIN f)

\* json.dumps: the document as JSON text, here its syntax tree: an object is
\* the sequence of its members in the order written
RECURSIVE json_dumps(_)
json_dumps(v) ==
    CASE v.py = "None" -> [json |-> "null"]
      [] v.py = "bool" -> [json |-> "bool", b |-> v.b]
      [] v.py = "int" -> [json |-> "number", n |-> v.n]
      [] v.py = "str" -> [json |-> "string", s |-> v.s]
      [] v.py = "list" ->
            [json |-> "array",
             elems |-> [i \in 1..Len(v.items) |-> json_dumps(v.items[i])]]
      [] v.py = "dict" ->
            [json |-> "object",
             members |-> [i \in 1..Len(SortedKeys(v.map)) |->
                 [key |-> SortedKeys(v.map)[i],
                  value |-> json_dumps(v.map[SortedKeys(v.map)[i]])]]]

\* json.load: a later member of an object replaces an earlier one of the same key
RECURSIVE json_load(_)
json_load(j) ==
    CASE j.json = "null" -> PyNone
      [] j.json = "bool" -> PyBool(j.b)
      [] j.json = "number" -> PyInt(j.n)
      [] j.json = "string" -> PyStr(j.s)
      [] j.json = "array" ->
            PyList([i \in 1..Len(j.elems) |-> json_load(j.elems[i])])
      [] j.json = "object" ->
            PyDict([k \in {j.members[i].key : i \in 1..Len(j.members)} |->
                LET last == CHOOSE i \in 1..Len(j.members) :
                        /\ j.members[i].key = k
                        /\ \A m \in (i+1)..Len(j.members) : j.members[m].key # k
                IN  json_load(j.members[last].value)])

serialize(node) == json_dumps(node_to_dict(node))

\* node_dict[key]
Subscript(node_dict, key) ==
    IF node_dict.py # "dict" THEN Raise("TypeError")
    ELSE IF key \notin DOMAIN node_dict.map THEN Raise("KeyError")
    ELSE Ok(node_dict.map[key])

\* the outcomes of a list comprehension's calls, left to right: the list of the
\* values, or the first exception
Collect(outcomes) ==
    IF \E i \in 1..Len(outcomes) : ~outcomes[i].ok
    THEN outcomes[CHOOSE i \in 1..Len(outcomes) :
                    /\ ~outcomes[i].ok
                    /\ \A m \in 1..(i-1) : outcomes[m].ok]
    ELSE Ok(PyList([i \in 1..Len(outcomes) |-> outcomes[i].val]))

RECURSIVE dict_to_node_EmptyList(_)
dict_to_node_EmptyList(node_dict) ==
    LET name == Subscript(node_dict, "name")
        type_str == Subscript(node_dict, "type")
        kids == Subscript(node_dict, "children")
    IN  IF ~name.ok THEN name
        ELSE IF ~type_str.ok THEN type_str
        ELSE IF ~kids.ok THEN kids
        ELSE IF Truthy(kids.val)
        THEN IF kids.val.py # "list" THEN Raise("TypeError")
             ELSE LET children == Collect(
                        [i \in 1..Len(kids.val.items) |->
                            dict_to_node_EmptyList(kids.val.items[i])])
                  IN  IF ~children.ok THEN children
                      ELSE FileTreeNode(name.val, type_str.val, children.val)
        ELSE FileTreeNode(name.val, type_str.val, PyList(<<>>))

\* [dict_to_node(child) for child in node_dict["children"]] over a true value
\* that is no list raises TypeError: an int or True is not iterable, and the
\* elements of a str or of a dict's keys are strings, which "name" cannot index
RECURSIVE dict_to_node(_)
dict_to_node(node_dict) ==
    LET name == Subscript(node_dict, "name")
        type_str == Subscript(node_dict, "type")
        kids == Subscript(node_dict, "children")
    IN  IF ~name.ok THEN name
        ELSE IF ~type_str.ok THEN type_str
        ELSE IF ~kids.ok THEN kids
        ELSE IF Truthy(kids.val)
        THEN IF kids.val.py # "list" THEN Raise("TypeError")
             ELSE LET children == Collect(
                        [i \in 1..Len(kids.val.items) |->
                            dict_to_node(kids.val.items[i])])
                  IN  IF ~children.ok THEN children
                      ELSE FileTreeNode(name.val, type_str.val, children.val)
        ELSE FileTreeNode(name.val, type_str.val, PyNone)

deserialize(data) == dict_to_node(data)

\* __load_from_file: json.load, then __deserialize
load_from_file(t) == deserialize(json_load(t))

-----------------------------------------------------------------------------
(* FileTreeNode.build_from_directory *)

\* str.startswith, for a one-character prefix
StartsWith(s, c) == Len(s) > 0 /\ s[1] = c

\* The host's directory tree as the scan sees it: an entry has a name, the
\* kind os.path.isdir / os.path.isfile report ("dir", "file", or "other" for
\* what is neither, such as a socket or a dangling link) and, for a
\* directory, its entries in the order os.listdir returns them.
Missing == [name |-> <<>>, kind |-> "missing", entries |-> <<>>]

\* what os.path.join(dir_path, name) names, dir being what dir_path names
Lookup(dir, name) ==
    IF \E i \in 1..Len(dir.entries) : dir.entries[i].name = name
    THEN dir.entries[CHOOSE i \in 1..Len(dir.entries) : dir.entries[i].name = name]
    ELSE Missing

\* dir is the entry dir_path names
RECURSIVE build_from_directory(_, _, _)
build_from_directory(self, dir, hidden) ==
    IF dir.kind # "dir" THEN Raise("ValueError")
    ELSE
    LET listed == dir.entries
        items == IF ~hidden
                 THEN SelectSeq(listed, LAMBDA e : ~StartsWith(e.name, "."))
                 ELSE listed
        dirs == SelectSeq(items, LAMBDA e : e.kind = "dir")
        withDirs == self.children \o
                    [i \in 1..Len(dirs) |->
                        FileTreeNode(PyStr(dirs[i].name), DIRECTORY, PyNone).val]
        \* for child in self.children: child.build_from_directory(...), the
        \* add_hidden argument left at its default
        scanned == Collect([i \in 1..Len(withDirs) |->
                        build_from_directory(withDirs[i],
                            Lookup(dir, withDirs[i].name.s), FALSE)])
        files == SelectSeq(items, LAMBDA e : e.kind = "file")
    IN  IF ~scanned.ok THEN scanned
        ELSE Ok([self EXCEPT !.children =
                    scanned.val.items
                    \o [i \in 1..Len(files) |->
                        FileTreeNode(PyStr(files[i].name), FILE, PyNone).val]])

-----------------------------------------------------------------------------
(* The host's file system, as save_to_file and create_template_copy use it *)

\* A file system is a function from the absolute paths that exist, each the
\* sequence of its components, to what is there: [kind |-> "dir"] or
\* [kind |-> "file", data |-> ...].  <<>> is the root directory.  A world is
\* a file system with what the calls did to it (ops: the directories made and
\* the files written, in order) and what they printed (out).

DirEntry == [kind |-> "dir"]

\* the root directory alone
EmptyFs == <<>> :> DirEntry

\* os.getcwd()
Cwd == <<"/", "d">>

\* the index of the last "/" of a path string, 0 when it has none
RECURSIVE RFindSlash(_, _)
RFindSlash(p, i) ==
    IF i = 0 THEN 0 ELSE IF p[i] = "/" THEN i ELSE RFindSlash(p, i - 1)

\* str.rstrip("/")
RECURSIVE RStripSlash(_)
RStripSlash(p) ==
    IF Len(p) > 0 /\ p[Len(p)] = "/" THEN RStripSlash(SubSeq(p, 1, Len(p) - 1))
    ELSE p

\* posixpath.split: <<head, tail>>
PathSplit(p) ==
    LET i == RFindSlash(p, Len(p))
        head == SubSeq(p, 1, i)
        tail == SubSeq(p, i + 1, Len(p))
    IN  <<IF head # <<>> /\ (\E k \in 1..Len(head) : head[k] # "/")
          THEN RStripSlash(head) ELSE head,
          tail>>

\* posixpath.join of two strings
PathJoin(a, b) ==
    IF StartsWith(b, "/") THEN b
    ELSE IF a = <<>> \/ a[Len(a)] = "/" THEN a \o b
    ELSE a \o <<"/">> \o b

\* the components of a path string, as the kernel reads them: the pieces
\* between the "/"
RECURSIVE Components(_)
Components(p) ==
    IF \E i \in 1..Len(p) : p[i] = "/"
    THEN LET i == CHOOSE k \in 1..Len(p) :
                    p[k] = "/" /\ \A m \in 1..(k - 1) : p[m] # "/"
         IN  <<SubSeq(p, 1, i - 1)>> \o Components(SubSeq(p, i + 1, Len(p)))
    ELSE <<p>>

Parent(path) == IF path = <<>> THEN <<>> ELSE SubSeq(path, 1, Len(path) - 1)

\* path resolution from the existing entry cur over the components from the
\* i-th on: "ok" and where it leads, "absent" when only the last component
\* does not exist (and where it would be), or the error of the walk
RECURSIVE Walk(_, _, _, _)
Walk(fs, cur, comps, i) ==
    IF i > Len(comps) THEN [st |-> "ok", at |-> cur]
    ELSE IF fs[cur].kind # "dir" THEN [st |-> "ENOTDIR", at |-> cur]
    ELSE IF comps[i] \in {<<>>, <<".">>} THEN Walk(fs, cur, comps, i + 1)
    ELSE IF comps[i] = <<".", ".">> THEN Walk(fs, Parent(cur), comps, i + 1)
    ELSE IF Append(cur, comps[i]) \in DOMAIN fs
    THEN Walk(fs, Append(cur, comps[i]), comps, i + 1)
    ELSE IF i = Len(comps) THEN [st |-> "absent", at |-> Append(cur, comps[i])]
    ELSE [st |-> "ENOENT", at |-> cur]

\* what a path string names: an absolute path from the root, another from the
\* working directory
Resolve(fs, p) ==
    IF p = <<>> THEN [st |-> "ENOENT", at |-> <<>>]
    ELSE IF StartsWith(p, "/") THEN Walk(fs, <<>>, Components(p), 1)
    ELSE Walk(fs, <<>>, Components(Cwd) \o Components(p), 1)

\* os.path.exists, os.path.isfile, os.path.isdir
PathExists(fs, p) == Resolve(fs, p).st = "ok"
PathIsFile(fs, p) == PathExists(fs, p) /\ fs[Resolve(fs, p).at].kind = "file"
PathIsDir(fs, p) == PathExists(fs, p) /\ fs[Resolve(fs, p).at].kind = "dir"

\* a call on a world: the world it leaves, and the value returned or the
\* exception raised
Done(w, outcome) == [w |-> w, ret |-> outcome]

Printed(w, line) == [w EXCEPT !.out = Append(@, line)]

\* os.mkdir(name)
Mkdir(w, name) ==
    LET r == Resolve(w.fs, name) IN
    CASE r.st = "ok" -> Done(w, Raise("FileExistsError"))
      [] r.st = "absent" ->
            Done([w EXCEPT !.fs = r.at :> DirEntry @@ w.fs,
                           !.ops = Append(@, [op |-> "mkdir", at |-> r.at])],
                 Ok(PyNone))
      [] r.st = "ENOENT" -> Done(w, Raise("FileNotFoundError"))
      [] r.st = "ENOTDIR" -> Done(w, Raise("NotADirectoryError"))

\* os.makedirs(name), exist_ok left False
RECURSIVE Makedirs(_, _)
Makedirs(w, name) ==
    LET first == PathSplit(name)
        sp == IF first[2] = <<>> THEN PathSplit(first[1]) ELSE first
        head == sp[1]
        tail == sp[2]
    IN  IF head # <<>> /\ tail # <<>> /\ ~PathExists(w.fs, head)
        THEN LET up == Makedirs(w, head) IN
             IF ~up.ret.ok /\ up.ret.err # "FileExistsError" THEN up
             ELSE IF tail = <<".">> THEN Done(up.w, Ok(PyNone))
             ELSE Mkdir(up.w, name)
        ELSE Mkdir(w, name)

\* with open(name, "w") as file: file.write(data)
WriteFile(w, name, data) ==
    LET r == Resolve(w.fs, name) IN
    CASE r.st = "ok" /\ w.fs[r.at].kind = "dir" ->
            Done(w, Raise("IsADirectoryError"))
      [] r.st \in {"ok", "absent"} /\ (r.st = "ok" => w.fs[r.at].kind = "file") ->
            Done([w EXCEPT
                    !.fs = r.at :> [kind |-> "file", data |-> data] @@ w.fs,
                    !.ops = Append(@, [op |-> "write", at |-> r.at])],
                 Ok(PyNone))
      [] r.st = "ENOENT" -> Done(w, Raise("FileNotFoundError"))
      [] r.st = "ENOTDIR" -> Done(w, Raise("NotADirectoryError"))

-----------------------------------------------------------------------------
(* FileTreeNode.save_to_file *)

save_to_file(self, w, file_path, overwrite) ==
    IF PathExists(w.fs, file_path) /\ PathIsFile(w.fs, file_path) /\ ~overwrite
    THEN Done(Printed(w, [msg |-> "already exists", path |-> file_path]),
              Ok(PyNone))
    ELSE LET r == WriteFile(w, file_path, serialize(self)) IN
         IF ~r.ret.ok THEN r
         ELSE Done(Printed(r.w, [msg |-> "saved", path |-> file_path]),
                   Ok(PyNone))

-----------------------------------------------------------------------------
(* FileTreeNode.create_template_copy *)

\* the payload of a template file
TemplateText == [text |-> "This is an empty template file"]

RECURSIVE create_template_copy(_, _, _, _)

\* for child in self.children: child.create_template_copy(root_path), from
\* the i-th child on; the first exception ends the loop
RECURSIVE CopyChildren(_, _, _, _)
CopyChildren(children, i, w, root_path) ==
    IF i > Len(children) THEN Done(w, Ok(PyNone))
    ELSE LET r == create_template_copy(children[i], w, PyStr(root_path), FALSE)
         IN  IF ~r.ret.ok THEN r
             ELSE CopyChildren(children, i + 1, r.w, root_path)

\* the creation of the node at root_path and of what is beneath it
CreateAt(self, w, root_path) ==
    IF self.type = DIRECTORY
    THEN LET made == Makedirs(w, root_path) IN
         IF ~made.ret.ok THEN made
         ELSE CopyChildren(self.children, 1, made.w, root_path)
    ELSE IF self.type = FILE
    THEN WriteFile(w, root_path, TemplateText)
    ELSE Done(w, Raise("ValueError"))

\* the path of the node: destination_path, or the working directory when
\* there is none, joined with the name
RootPath(self, destination_path) ==
    PathJoin(IF destination_path = PyNone THEN Cwd ELSE destination_path.s,
             self.name.s)

create_template_copy_NoSkip(self, w, destination_path, overwrite) ==
    CreateAt(self, w, RootPath(self, destination_path))

create_template_copy(self, w, destination_path, overwrite) ==
    LET root_path == RootPath(self, destination_path) IN
    IF PathExists(w.fs, root_path) /\ ~overwrite
    THEN Done(Printed(w, [msg |-> "already exists, skipping", path |-> root_path]),
              Ok(PyNone))
    ELSE CreateAt(self, w, root_path)

-----------------------------------------------------------------------------
(* FileTreeNode.print_tree *)

\* ord(c) of the characters names are made of
Ord(c) ==
    CASE c = "." -> 46
      [] c = "A" -> 65
      [] c = "B" -> 66
      [] c = "a" -> 97
      [] c = "b" -> 98
      [] c = "h" -> 104

\* str.lower
Lower(s) ==
    [i \in 1..Len(s) |->
        CASE s[i] = "A" -> "a"
          [] s[i] = "B" -> "b"
          [] OTHER -> s[i]]

\* s < t on Python strings: by code point, a proper prefix first
StrLess(s, t) ==
    \E i \in 1..Len(t) :
        /\ \A j \in 1..(i - 1) : j <= Len(s) /\ s[j] = t[j]
        /\ \/ i = Len(s) + 1
           \/ i <= Len(s) /\ Ord(s[i]) < Ord(t[i])

\* the key of sorted(): lambda x: (x.type != "directory", x.name.lower())
SortKeyNoLower(x) == [notdir |-> x.type # DIRECTORY, name |-> x.name.s]

SortKey(x) == [notdir |-> x.type # DIRECTORY, name |-> Lower(x.name.s)]

\* k1 < k2 on the key tuples: False < True, then the names
KeyLess(k1, k2) ==
    \/ ~k1.notdir /\ k2.notdir
    \/ k1.notdir = k2.notdir /\ StrLess(k1.name, k2.name)

\* sorted(xs, key=...): a new list, stable (equal keys keep their order)
RECURSIVE sorted(_)
sorted(xs) ==
    IF xs = <<>> THEN <<>>
    ELSE LET n == Len(xs)
             x == xs[n]
             front == sorted(SubSeq(xs, 1, n - 1))
             \* x goes after every element whose key is not greater
             later == {i \in 1..(n - 1) : KeyLess(SortKey(x), SortKey(front[i]))}
             at == IF later = {} THEN n
                   ELSE CHOOSE i \in later : \A j \in later : i <= j
         IN  SubSeq(front, 1, at - 1) \o <<x>> \o SubSeq(front, at, n - 1)

\* The pieces of a printed line.  Each box-drawing glyph and each icon of the
\* source is one character of the model, written in ASCII.
LAST_CONNECTOR == <<" ", " ", "L", "-">>
CONNECTOR == <<" ", " ", "T", "-">>
LAST_INDENT == <<" ", " ", " ">>
BAR_INDENT == <<" ", " ", "|">>
FILE_ICON == "F"
DIRECTORY_ICON == "D"

\* print_tree leaving out the line of a hidden node only, not what is beneath it
RECURSIVE print_tree_VisitsHidden(_, _, _, _, _)
print_tree_VisitsHidden(self, indent, hidden, is_last_child, prefix) ==
    LET connector == IF is_last_child THEN LAST_CONNECTOR ELSE CONNECTOR IN
    IF self.type = FILE
    THEN [out |-> IF ~hidden /\ StartsWith(self.name.s, ".") THEN <<>>
                  ELSE <<prefix \o connector \o <<FILE_ICON, " ">> \o self.name.s>>,
          self |-> self]
    ELSE IF self.type = DIRECTORY
    THEN LET new_prefix == prefix \o (IF is_last_child THEN LAST_INDENT
                                                       ELSE BAR_INDENT)
             sorted_children == sorted(self.children)
             n == Len(sorted_children)
             printed == [i \in 1..n |->
                            print_tree_VisitsHidden(sorted_children[i], indent + 1, hidden,
                                       i = n, new_prefix)]
             Lines[i \in 0..n] ==
                 IF i = 0 THEN <<>> ELSE Lines[i - 1] \o printed[i].out
         IN  [out |-> (IF ~hidden /\ StartsWith(self.name.s, ".") THEN <<>>
                       ELSE <<prefix \o connector \o <<DIRECTORY_ICON, " ">>
                                \o self.name.s>>) \o Lines[n],
              self |-> self]
    ELSE [out |-> <<>>, self |-> self]

\* print_tree(self, indent, print_hidden, is_last_child, prefix): what it
\* prints, a line per print call, and the node as the call leaves it
RECURSIVE print_tree(_, _, _, _, _)
print_tree(self, indent, hidden, is_last_child, prefix) ==
    IF ~hidden /\ StartsWith(self.name.s, ".")
    THEN [out |-> <<>>, self |-> self]
    ELSE
    LET connector == IF is_last_child THEN LAST_CONNECTOR ELSE CONNECTOR IN
    IF self.type = FILE
    THEN [out |-> <<prefix \o connector \o <<FILE_ICON, " ">> \o self.name.s>>,
          self |-> self]
    ELSE IF self.type = DIRECTORY
    THEN LET new_prefix == prefix \o (IF is_last_child THEN LAST_INDENT
                                                       ELSE BAR_INDENT)
             sorted_children == sorted(self.children)
             n == Len(sorted_children)
             printed == [i \in 1..n |->
                            print_tree(sorted_children[i], indent + 1, hidden,
                                       i = n, new_prefix)]
             Lines[i \in 0..n] ==
                 IF i = 0 THEN <<>> ELSE Lines[i - 1] \o printed[i].out
         IN  [out |-> <<prefix \o connector \o <<DIRECTORY_ICON, " ">>
                            \o self.name.s>> \o Lines[n],
              \* the children are printed from the sorted copy; self.children
              \* is not assigned
              self |-> self]
    ELSE [out |-> <<>>, self |-> self]

-----------------------------------------------------------------------------
(* The inputs of the codec runs *)

Names == {<<"a">>, <<".", "b">>}

\* every tree of n nodes the constructor builds, bottom up, with names of a set
RECURSIVE TreesOfSize(_, _), ForestsOfSize(_, _)
TreesOfSize(names, n) ==
    IF n = 1
    THEN {FileTreeNode(PyStr(nm), t, PyNone).val :
            nm \in names, t \in {FILE, DIRECTORY}}
    ELSE {FileTreeNode(PyStr(nm), DIRECTORY, PyList(f)).val :
            nm \in names, f \in ForestsOfSize(names, n - 1)}
ForestsOfSize(names, m) ==
    IF m = 0 THEN {<<>>}
    ELSE UNION {{<<t>> \o f : t \in TreesOfSize(names, k),
                              f \in ForestsOfSize(names, m - k)} :
                    k \in 1..m}

CtorArgs ==
    [name : {PyStr(nm) : nm \in Names},
     type_str : {FILE, DIRECTORY, FOLDER, PyStr(<<>>)},
     children : {PyNone} \cup
                {PyList(f) : f \in UNION {ForestsOfSize(Names, m) :
                                        m \in 0..(MaxNodes - 1)}}]

NoArgs == [name |-> PyNone, type_str |-> PyNone, children |-> PyNone]
NoOutcome == Raise("none")
NoText == [json |-> "none"]

\* a dict of the given keys
Obj(keys, name, type_str, children) ==
    PyDict([k \in keys |->
        CASE k = "name" -> name [] k = "type" -> type_str [] k = "children" -> children])

AllKeys == {"name", "type", "children"}
EmptyDict == PyDict([k \in {} |-> PyNone])

\* node objects without a children array: the well-formed ones, and those with
\* one key missing or of another shape
DocLeaves ==
    {Obj(AllKeys, PyStr(<<"a">>), t, PyNone) : t \in {FILE, DIRECTORY}}
    \cup {Obj(AllKeys \ {k}, PyStr(<<"a">>), DIRECTORY, PyNone) : k \in AllKeys}
    \cup {Obj(AllKeys, PyInt(7), FILE, PyNone)}
    \cup {Obj(AllKeys, PyStr(<<"a">>), FOLDER, PyNone)}
    \cup {Obj(AllKeys, PyStr(<<"a">>), DIRECTORY, c) :
            c \in {PyInt(0), PyInt(1), PyBool(FALSE), PyStr(<<>>), EmptyDict,
                   PyList(<<>>)}}
    \cup {Obj(AllKeys, PyStr(<<"a">>), FILE, c) : c \in {PyInt(0), PyList(<<>>)}}

\* the name and type of a node object that has a children array
DocParents ==
    {<<PyStr(<<"a">>), FILE>>, <<PyStr(<<"a">>), DIRECTORY>>,
     <<PyInt(7), DIRECTORY>>}

RECURSIVE DocsOfSize(_), DocListsOfSize(_)
DocsOfSize(n) ==
    IF n = 1 THEN DocLeaves
    ELSE {Obj(AllKeys, p[1], p[2], PyList(f)) :
            p \in DocParents, f \in DocListsOfSize(n - 1)}
DocListsOfSize(m) ==
    IF m = 0 THEN {<<>>}
    ELSE UNION {{<<d>> \o f : d \in DocsOfSize(k), f \in DocListsOfSize(m - k)} :
                    k \in 1..m}

-----------------------------------------------------------------------------
(* Each specification runs one part of the program; the others are idle *)

CodecIdle ==
    /\ cpc = "idle" /\ args = NoArgs /\ text = NoText
    /\ built = NoOutcome /\ loaded = NoOutcome

ScanIdle ==
    /\ spc = "idle" /\ disk = Missing /\ add_hidden = FALSE /\ ft = NoOutcome

NoNode == [name |-> PyNone, type |-> PyNone, children |-> <<>>]

FsIdle ==
    /\ fpc = "idle" /\ hostfs = EmptyFs /\ tree = NoNode /\ hist = <<>>

PrintIdle ==
    /\ ppc = "idle" /\ obj_ft = NoNode /\ print_hidden = FALSE /\ stdout = <<>>

-----------------------------------------------------------------------------
(* The codec runs: construct a tree, save it, load it; or load a document *)

InitCodec ==
    /\ ScanIdle
    /\ FsIdle
    /\ PrintIdle
    /\ \/ /\ cpc = "args"
          /\ args \in CtorArgs
          /\ text = NoText
       \/ /\ cpc = "text"
          /\ args = NoArgs
          /\ \E n \in 1..MaxDocNodes :
                text \in {json_dumps(d) : d \in DocsOfSize(n)}
    /\ built = NoOutcome
    /\ loaded = NoOutcome

\* FileTreeNode(name, type_str, children)
New ==
    /\ cpc = "args"
    /\ built' = FileTreeNode(args.name, args.type_str, args.children)
    /\ cpc' = IF built'.ok THEN "built" ELSE "failed"
    /\ UNCHANGED <<args, text, loaded, scanVars, fsVars, printVars>>

\* save_to_file's write: file.write(self.__serialize())
Dump ==
    /\ cpc = "built"
    /\ text' = serialize(built.val)
    /\ cpc' = "dumped"
    /\ UNCHANGED <<args, built, loaded, scanVars, fsVars, printVars>>

\* FileTreeNode(file_path=...): __load_from_file
Load ==
    /\ cpc \in {"dumped", "text"}
    /\ loaded' = load_from_file(text)
    /\ cpc' = "loaded"
    /\ UNCHANGED <<args, built, text, scanVars, fsVars, printVars>>

NextCodec == New \/ Dump \/ Load

SpecCodec == InitCodec /\ [][NextCodec]_vars

-----------------------------------------------------------------------------
(* The scan runs: the build command on a directory of the host *)

ScanNames == {<<"a">>, <<"b">>, <<".", "h">>}

\* a directory entry of k entries in all (itself and what is beneath it), or
\* a file or an entry of another kind when k = 1
EntriesOfSize(k, Sub(_)) ==
    {[name |-> nm, kind |-> "dir", entries |-> sub] :
        nm \in ScanNames, sub \in Sub(k - 1)}
    \cup (IF k = 1
          THEN [name : ScanNames, kind : {"file", "other"}, entries : {<<>>}]
          ELSE {})

\* every listing of m entries in all, at all depths
RECURSIVE ListingsOfSize(_)
ListingsOfSize(m) ==
    IF m = 0 THEN {<<>>}
    ELSE UNION {
            UNION {{<<e>> \o rest :
                        rest \in {r \in ListingsOfSize(m - k) :
                                    \A i \in 1..Len(r) : r[i].name # e.name}} :
                    e \in EntriesOfSize(k, ListingsOfSize)} :
            k \in 1..m}

Disks ==
    {[name |-> <<"r">>, kind |-> "dir", entries |-> es] :
        es \in UNION {ListingsOfSize(m) : m \in 0..MaxEntries}}
    \cup {[name |-> <<"r">>, kind |-> "file", entries |-> <<>>]}

InitScan ==
    /\ CodecIdle
    /\ FsIdle
    /\ PrintIdle
    /\ spc = "start"
    /\ disk \in Disks
    /\ add_hidden \in BOOLEAN
    /\ ft = FileTreeNode(PyStr(disk.name), DIRECTORY, PyNone)

\* the build command: ft.build_from_directory(source, add_hidden=add_hidden)
Build ==
    /\ spc = "start"
    /\ ft' = build_from_directory(ft.val, disk, add_hidden)
    /\ spc' = IF ft'.ok THEN "built" ELSE "failed"
    /\ UNCHANGED <<disk, add_hidden, codecVars, fsVars, printVars>>

NextScan == Build

SpecScan == InitScan /\ [][NextScan]_vars

-----------------------------------------------------------------------------
(* The command chains: save_to_file calls and template commands on one tree *)

OldFile == [kind |-> "file", data |-> [text |-> "old"]]

\* /d
BaseFs == << <<"d">> >> :> DirEntry @@ EmptyFs
\* /d/a, a directory, and /d/a/old in it
DirFs == << <<"d">>, <<"a">>, <<"o", "l", "d">> >> :> OldFile
         @@ << <<"d">>, <<"a">> >> :> DirEntry @@ BaseFs
\* /d/a, a file
FileFs == << <<"d">>, <<"a">> >> :> OldFile @@ BaseFs

FileSystems == {BaseFs, DirFs, FileFs}

FsNames == {<<"a">>, <<".", ".", "/", "x">>}

FsTrees ==
    UNION {TreesOfSize(FsNames, n) : n \in 1..MaxTplNodes}
    \cup TreesOfSize({<<"/", "t">>}, 1)

SavePaths == {<<"/", "d", "/", "a">>}
Destinations == {PyNone, PyStr(<<"/", "d", "/", "a">>)}

InitFs ==
    /\ CodecIdle
    /\ ScanIdle
    /\ PrintIdle
    /\ fpc = "ready"
    /\ hostfs \in FileSystems
    /\ tree \in FsTrees
    /\ hist = <<>>

\* the world a call starts in
World == [fs |-> hostfs, ops |-> <<>>, out |-> <<>>]

\* what is kept of a call: the command, its arguments, the file system before
\* and after, the value returned or the exception raised, the directories made
\* and the files written, the lines printed, and the line the command echoed
Call(cmd, arg, overwrite, r, echo) ==
    [cmd |-> cmd, arg |-> arg, overwrite |-> overwrite,
     pre |-> hostfs, post |-> r.w.fs, ret |-> r.ret,
     ops |-> r.w.ops, out |-> r.w.out, echo |-> echo]

\* ft.save_to_file(file_path, overwrite)
SaveToFile(file_path, overwrite) ==
    /\ fpc = "ready"
    /\ Len(hist) < MaxCalls
    /\ LET r == save_to_file(tree, World, file_path, overwrite) IN
        /\ hostfs' = r.w.fs
        /\ hist' = Append(hist, Call("save", PyStr(file_path), overwrite, r, "none"))
        /\ fpc' = IF r.ret.ok THEN "ready" ELSE "aborted"
    /\ UNCHANGED <<tree, codecVars, scanVars, printVars>>

\* the template command: ft.create_template_copy(destination, overwrite),
\* then "Template copy created"; an exception is echoed and aborts the chain
Template(destination, overwrite) ==
    /\ fpc = "ready"
    /\ Len(hist) < MaxCalls
    /\ LET r == create_template_copy(tree, World, destination, overwrite) IN
        /\ hostfs' = r.w.fs
        /\ hist' = Append(hist, Call("template", destination, overwrite, r,
                        IF r.ret.ok THEN "Template copy created"
                        ELSE "An error occurred while creating the template"))
        /\ fpc' = IF r.ret.ok THEN "ready" ELSE "aborted"
    /\ UNCHANGED <<tree, codecVars, scanVars, printVars>>

NextFs ==
    \/ \E p \in SavePaths, o \in BOOLEAN : SaveToFile(p, o)
    \/ \E d \in Destinations, o \in BOOLEAN : Template(d, o)

SpecFs == InitFs /\ [][NextFs]_vars

-----------------------------------------------------------------------------
(* The print runs: the print command on the context's tree *)

PrintNames == {<<"a">>, <<"B">>, <<".", "h">>}

\* the message of click.echo, its quoting marks left out
NO_TREE_MESSAGE == <<"No file tree exists. Use build or load command before print.">>

\* obj.get("ft") is a tree built or loaded before, or None (NoNode here)
InitPrint ==
    /\ CodecIdle
    /\ ScanIdle
    /\ FsIdle
    /\ ppc = "ready"
    /\ \/ obj_ft = NoNode
       \/ \E n \in 1..MaxPrintNodes : obj_ft \in TreesOfSize(PrintNames, n)
    /\ print_hidden \in BOOLEAN
    /\ stdout = <<>>

\* the print command with a tree: ft.print_tree(print_hidden=print_hidden)
PrintTree ==
    /\ ppc = "ready"
    /\ obj_ft # NoNode
    /\ LET call == print_tree(obj_ft, 0, print_hidden, TRUE, <<>>)
       IN  /\ stdout' = stdout \o call.out
           /\ obj_ft' = call.self
    /\ ppc' = "printed"
    /\ UNCHANGED <<print_hidden, codecVars, scanVars, fsVars>>

\* the print command without a tree: the message, then click.Abort()
PrintAbort ==
    /\ ppc = "ready"
    /\ obj_ft = NoNode
    /\ stdout' = stdout \o <<NO_TREE_MESSAGE>>
    /\ ppc' = "aborted"
    /\ UNCHANGED <<obj_ft, print_hidden, codecVars, scanVars, fsVars>>

NextPrint == PrintTree \/ PrintAbort

SpecPrint == InitPrint /\ [][NextPrint]_vars

-----------------------------------------------------------------------------
(* Claims about the constructor and the codec *)

\* C1: loading what was saved gives the tree that was saved: the same names,
\* the same kinds and the same children in the same order at every depth, for
\* every tree the constructor builds, empty directories and file leaves
\* (whose children are written as null) included.
C1_RoundTrip ==
    (cpc = "loaded" /\ built.ok) => (loaded.ok /\ loaded.val = built.val)

\* a saved and loaded tree with an empty directory and a file leaf that is a
\* grandchild of the root
C1_Witness ==
    /\ cpc = "loaded" /\ built.ok /\ loaded.ok
    /\ \E j, k \in 1..Len(loaded.val.children) :
        /\ loaded.val.children[j].type = DIRECTORY
        /\ loaded.val.children[j].children = <<>>
        /\ Len(loaded.val.children[k].children) > 0
        /\ loaded.val.children[k].children[1].type = FILE
    /\ text.members[1].key = "children"

\* some node object of the document, at any depth, has type "file" and a
\* children array that is not empty
RECURSIVE HasFileWithChildren(_)
HasFileWithChildren(d) ==
    /\ d.py = "dict"
    /\ {"type", "children"} \subseteq DOMAIN d.map
    /\ d.map["children"].py = "list"
    /\ \/ d.map["type"] = FILE /\ Len(d.map["children"].items) > 0
       \/ \E i \in 1..Len(d.map["children"].items) :
            HasFileWithChildren(d.map["children"].items[i])

\* C2: the constructor raises ValueError when the kind is neither "file" nor
\* "directory", and when the kind is "file" and one or more children are
\* given; loading a document in which a node object at any depth has type
\* "file" and a non-empty children array fails and gives no tree.
C2_ConstructionRejects ==
    /\ (/\ cpc # "args" /\ args # NoArgs
        /\ \/ args.type_str \notin {FILE, DIRECTORY}
           \/ /\ args.type_str = FILE
              /\ args.children.py = "list"
              /\ Len(args.children.items) > 0)
       => built = Raise("ValueError")
    /\ (cpc = "loaded" /\ HasFileWithChildren(json_load(text))) => ~loaded.ok

\* a load refused for a file with children that is not the root of the
\* document
C2_Witness ==
    /\ cpc = "loaded"
    /\ loaded = Raise("ValueError")
    /\ json_load(text).map["type"] = DIRECTORY
    /\ HasFileWithChildren(json_load(text))

\* the shape the format gives a node object: the three keys, a string name,
\* one of the two type literals, and children null or an array of node objects
RECURSIVE WellShaped(_)
WellShaped(d) ==
    /\ d.py = "dict"
    /\ AllKeys \subseteq DOMAIN d.map
    /\ d.map["name"].py = "str"
    /\ d.map["type"] \in {FILE, DIRECTORY}
    /\ \/ d.map["children"] = PyNone
       \/ /\ d.map["children"].py = "list"
          /\ \A i \in 1..Len(d.map["children"].items) :
                WellShaped(d.map["children"].items[i])

\* C3: loading fails for every document in which a node object, at any depth,
\* lacks one of the keys name, type, children or has one of the wrong shape.
C3_MalformedRejected ==
    (cpc = "loaded" /\ ~WellShaped(json_load(text))) => ~loaded.ok

-----------------------------------------------------------------------------
(* Claims about the scan *)

\* the entries of a listing the scan is to consider under a flag
Considered(es, hidden) ==
    IF hidden THEN es ELSE SelectSeq(es, LAMBDA e : ~StartsWith(e.name, "."))

\* the children the scan is to give a directory: a directory child for every
\* sub-directory entry, in listing order, each populated by the same rule, and
\* then a file child for every regular-file entry, in listing order
RECURSIVE ScanRule(_, _)
ScanRule(dir, hidden) ==
    LET dirs == SelectSeq(Considered(dir.entries, hidden), LAMBDA e : e.kind = "dir")
        files == SelectSeq(Considered(dir.entries, hidden), LAMBDA e : e.kind = "file")
    IN  [i \in 1..Len(dirs) |->
            [name |-> PyStr(dirs[i].name), type |-> DIRECTORY,
             children |-> ScanRule(dirs[i], hidden)]]
        \o [i \in 1..Len(files) |->
            [name |-> PyStr(files[i].name), type |-> FILE, children |-> <<>>]]

\* C4: after the scan of a fresh directory node, its children are one
\* directory child per sub-directory entry, in listing order, each populated
\* by the same rule, followed by one file child per regular-file entry, in
\* listing order, at every depth.
C4_ScanOrdering ==
    spc = "built" => ft.val.children = ScanRule(disk, add_hidden)

\* The order alone, whatever entries a level of the scan considered: the
\* children of every node are the directory children in listing order and
\* then the file children in listing order.
RECURSIVE OrderedAsListed(_, _)
OrderedAsListed(node, dir) ==
    LET present == SelectSeq(dir.entries, LAMBDA e :
                        \E i \in 1..Len(node.children) :
                            node.children[i].name = PyStr(e.name))
        dirs == SelectSeq(present, LAMBDA e : e.kind = "dir")
        files == SelectSeq(present, LAMBDA e : e.kind = "file")
    IN  /\ Len(node.children) = Len(dirs) + Len(files)
        /\ \A i \in 1..Len(dirs) :
            /\ node.children[i].name = PyStr(dirs[i].name)
            /\ node.children[i].type = DIRECTORY
            /\ OrderedAsListed(node.children[i], dirs[i])
        /\ \A i \in 1..Len(files) :
            /\ node.children[Len(dirs) + i].name = PyStr(files[i].name)
            /\ node.children[Len(dirs) + i].type = FILE

ScanKeepsListingOrder ==
    spc = "built" => OrderedAsListed(ft.val, disk)

\* no node of the tree has a name that starts with "."
RECURSIVE NoHiddenNode(_)
NoHiddenNode(node) ==
    /\ ~StartsWith(node.name.s, ".")
    /\ \A i \in 1..Len(node.children) : NoHiddenNode(node.children[i])

\* the tree has a node for every sub-directory and regular-file entry of the
\* directory, at every depth
RECURSIVE HasNodeForEveryEntry(_, _)
HasNodeForEveryEntry(node, dir) ==
    \A k \in 1..Len(dir.entries) :
        LET e == dir.entries[k] IN
        e.kind \in {"dir", "file"} =>
            \E i \in 1..Len(node.children) :
                /\ node.children[i].name = PyStr(e.name)
                /\ node.children[i].type = (IF e.kind = "dir" THEN DIRECTORY ELSE FILE)
                /\ e.kind = "dir" => HasNodeForEveryEntry(node.children[i], e)

\* C5: the hidden filter of the scan follows the flag of the call at every
\* depth: without the flag the tree has no node whose name starts with ".",
\* and with it the tree has a node for every sub-directory and regular-file
\* entry, dot-prefixed or not, of the top directory and of every scanned
\* sub-directory.
C5_HiddenFollowsFlag ==
    spc = "built" =>
        /\ ~add_hidden => NoHiddenNode(ft.val)
        /\ add_hidden => HasNodeForEveryEntry(ft.val, disk)

-----------------------------------------------------------------------------
(* Claims about save_to_file and create_template_copy *)

Calls(cmd) == {i \in 1..Len(hist) : hist[i].cmd = cmd}

\* the path string a call is about: the file of a save, the root path of a
\* template copy
Target(c) ==
    IF c.cmd = "save" THEN c.arg.s ELSE RootPath(tree, c.arg)

\* the call was made without overwrite on a path that existed
SkipCase(c) == ~c.overwrite /\ PathExists(c.pre, Target(c))

\* the call wrote and returned
Wrote(c) == c.ret.ok /\ c.ops # <<>>

\* the call changed nothing, returned, and printed that the path exists
ReportedSkipped(c) ==
    /\ c.ret.ok
    /\ c.ops = <<>>
    /\ c.post = c.pre
    /\ Len(c.out) = 1
    /\ c.out[1].msg \in {"already exists", "already exists, skipping"}
    /\ c.out[1].path = Target(c)

\* C6: save_to_file without overwrite on a path that exists, a file or a
\* directory, writes nothing, leaves the entry as it was and ends with the
\* skipped outcome, not with a failure; on a path that does not exist, or
\* with overwrite on a file, the file holds serialize(node) afterwards.
C6_SaveSkipsExisting ==
    \A i \in Calls("save") :
        LET c == hist[i] IN
        /\ SkipCase(c) => ReportedSkipped(c)
        /\ (~PathExists(c.pre, Target(c))
            \/ (c.overwrite /\ PathIsFile(c.pre, Target(c))))
           => /\ PathIsFile(c.post, Target(c))
              /\ c.post[Resolve(c.post, Target(c)).at].data = serialize(tree)

\* C7: what a skipped save_to_file or create_template_copy returns to its
\* caller differs from what a call that wrote returns, and is no failure;
\* the template command does not report a creation after a skipped call.
C7_SkipDistinguishable ==
    /\ \A i, j \in 1..Len(hist) :
        (hist[i].cmd = hist[j].cmd /\ SkipCase(hist[i]) /\ Wrote(hist[j]))
            => (hist[i].ret.ok /\ hist[i].ret # hist[j].ret)
    /\ \A i \in Calls("template") :
        SkipCase(hist[i]) => hist[i].echo # "Template copy created"

\* C8: create_template_copy without overwrite on a root path that exists
\* does nothing: it reports the skip, visits no child and leaves the file
\* system as it was; so the second of two successive copies of the tree into
\* one destination, without overwrite, changes nothing.
C8_SkipIsNoOp ==
    /\ \A i \in Calls("template") : SkipCase(hist[i]) => ReportedSkipped(hist[i])
    /\ \A i \in Calls("template") :
        (/\ i + 1 \in Calls("template")
         /\ hist[i + 1].arg = hist[i].arg
         /\ ~hist[i].overwrite /\ ~hist[i + 1].overwrite)
        => /\ hist[i + 1].post = hist[i].post
           /\ hist[i + 1].ops = <<>>
           /\ ReportedSkipped(hist[i + 1])

\* a copy that made a directory and wrote into it, and the same copy again,
\* skipped
C8_Witness ==
    /\ Len(hist) = 2
    /\ hist[1].cmd = "template" /\ hist[2].cmd = "template"
    /\ hist[1].arg = hist[2].arg
    /\ ~hist[1].overwrite /\ ~hist[2].overwrite
    /\ Len(hist[1].ops) >= 2
    /\ Len(tree.children) >= 1
    /\ ReportedSkipped(hist[2])

\* C9: create_template_copy with overwrite on a directory node whose
\* directory exists ends without an error: the directory is used as it is,
\* the children are written into it, and what was in it stays.
C9_OverwriteReusesDirectory ==
    \A i \in Calls("template") :
        LET c == hist[i] IN
        (c.overwrite /\ tree.type = DIRECTORY /\ PathIsDir(c.pre, Target(c)))
        => /\ c.ret.ok
           /\ \A k \in 1..Len(tree.children) :
                PathExists(c.post, RootPath(tree.children[k], PyStr(Target(c))))
           /\ \A p \in DOMAIN c.pre : p \in DOMAIN c.post

\* the path is the directory or beneath it
Within(path, dir) ==
    Len(path) >= Len(dir) /\ SubSeq(path, 1, Len(dir)) = dir

\* the directory a template copy is made into
DestinationOf(c) ==
    Resolve(c.pre, IF c.arg = PyNone THEN Cwd ELSE c.arg.s).at

\* C10: create_template_copy makes directories and writes files only beneath
\* the destination (which it may have to make), whatever the names of the
\* nodes, and without overwrite it removes or replaces nothing that existed.
C10_StaysInDestination ==
    \A i \in Calls("template") :
        LET c == hist[i] IN
        /\ \A k \in 1..Len(c.ops) : Within(c.ops[k].at, DestinationOf(c))
        /\ ~c.overwrite =>
            \A p \in DOMAIN c.pre : p \in DOMAIN c.post /\ c.post[p] = c.pre[p]

\* the second half alone: without overwrite nothing that existed is removed
\* or replaced
TemplateKeepsExisting ==
    \A i \in Calls("template") :
        ~hist[i].overwrite =>
            \A p \in DOMAIN hist[i].pre :
                p \in DOMAIN hist[i].post /\ hist[i].post[p] = hist[i].pre[p]

-----------------------------------------------------------------------------
(* Claims about print_tree *)

\* Reading a printed line back: the indentation is a run of three-character
\* groups ending in a space or a bar, the connector follows, then the icon, a
\* space and the name.
RECURSIVE DepthFrom(_, _)
DepthFrom(line, k) ==
    IF line[3 * k + 3] \in {LAST_CONNECTOR[3], CONNECTOR[3]} THEN k
    ELSE DepthFrom(line, k + 1)

Depth(line) == DepthFrom(line, 0)
ConnectorOf(line) == SubSeq(line, 3 * Depth(line) + 1, 3 * Depth(line) + 4)
IndentOf(line, k) == SubSeq(line, 3 * k + 1, 3 * k + 3)
IconOf(line) == line[3 * Depth(line) + 5]
NameOf(line) == SubSeq(line, 3 * Depth(line) + 7, Len(line))

\* lines i < j are lines of children of the same directory
Siblings(out, i, j) ==
    /\ i < j
    /\ Depth(out[i]) = Depth(out[j])
    /\ \A k \in i..j : Depth(out[k]) >= Depth(out[i])

\* the display key of a line: (isFile, lowercased name)
LineKey(line) == [notdir |-> IconOf(line) = FILE_ICON, name |-> Lower(NameOf(line))]

SortedLevels(out) ==
    \A i, j \in 1..Len(out) :
        Siblings(out, i, j) => ~KeyLess(LineKey(out[j]), LineKey(out[i]))

\* C11: the lines of the children of every directory come in ascending order
\* of (isFile, lowercased name), so directories come before files and names
\* compare case-insensitively, whatever the stored order is; and the call
\* leaves the tree as it was (every step keeps obj_ft).
C11_RenderOrdering ==
    /\ [](ppc = "printed" => SortedLevels(stdout))
    /\ [][obj_ft' = obj_ft]_vars

\* a tree stored as file "B", file "a", directory "B" is printed as
\* directory "B", file "a", file "B"
C11_Witness ==
    /\ ppc = "printed"
    /\ Len(obj_ft.children) = 3
    /\ obj_ft.children[1].type = FILE /\ obj_ft.children[1].name.s = <<"B">>
    /\ obj_ft.children[2].type = FILE /\ obj_ft.children[2].name.s = <<"a">>
    /\ obj_ft.children[3].type = DIRECTORY /\ obj_ft.children[3].name.s = <<"B">>
    /\ Len(stdout) = 4
    /\ IconOf(stdout[2]) = DIRECTORY_ICON /\ NameOf(stdout[2]) = <<"B">>
    /\ IconOf(stdout[3]) = FILE_ICON /\ NameOf(stdout[3]) = <<"a">>
    /\ IconOf(stdout[4]) = FILE_ICON /\ NameOf(stdout[4]) = <<"B">>

\* the line above line i that it is nested in (0 when there is none)
ParentLine(out, i) ==
    LET above == {j \in 1..(i - 1) : Depth(out[j]) < Depth(out[i])}
    IN  IF above = {} THEN 0 ELSE CHOOSE j \in above : \A k \in above : k <= j

\* the names from the first line down to line i
RECURSIVE LinePath(_, _)
LinePath(out, i) ==
    IF ParentLine(out, i) = 0 THEN <<NameOf(out[i])>>
    ELSE LinePath(out, ParentLine(out, i)) \o <<NameOf(out[i])>>

\* what each line says of its node: how deep it is, the names down to it, its icon
LineNodes(out) ==
    [i \in 1..Len(out) |->
        [depth |-> Depth(out[i]), path |-> LinePath(out, i), icon |-> IconOf(out[i])]]

\* the nodes that are to have a line, in stored order: all of them, or, without
\* hidden ones, those with no dot-prefixed name from the root down to them
RECURSIVE Shown(_, _, _)
Shown(node, above, hidden) ==
    IF ~hidden /\ StartsWith(node.name.s, ".") THEN <<>>
    ELSE LET path == above \o <<node.name.s>>
             below == [i \in 1..Len(node.children) |->
                          Shown(node.children[i], path, hidden)]
             All[i \in 0..Len(below)] ==
                 IF i = 0 THEN <<>> ELSE All[i - 1] \o below[i]
         IN  <<[depth |-> Len(above), path |-> path,
                icon |-> IF node.type = FILE THEN FILE_ICON ELSE DIRECTORY_ICON]>>
             \o All[Len(below)]

Count(xs, x) == Cardinality({i \in 1..Len(xs) : xs[i] = x})

SameBag(xs, ys) ==
    /\ Len(xs) = Len(ys)
    /\ \A i \in 1..Len(xs) : Count(xs, xs[i]) = Count(ys, xs[i])

RECURSIVE NodeCount(_)
NodeCount(node) ==
    LET Sum[i \in 0..Len(node.children)] ==
            IF i = 0 THEN 0 ELSE Sum[i - 1] + NodeCount(node.children[i])
    IN  1 + Sum[Len(node.children)]

\* C12: without print_hidden there is no line for a node whose name starts
\* with "." nor for anything beneath it (nothing at all for a hidden root), and
\* exactly one line for every other node; with print_hidden there is exactly
\* one line for every node of the tree.
C12_RenderHidden ==
    ppc = "printed" =>
        /\ SameBag(LineNodes(stdout), Shown(obj_ft, <<>>, print_hidden))
        /\ print_hidden => Len(stdout) = NodeCount(obj_ft)

\* a root holding a visible file and a hidden directory that holds a visible
\* file, printed without print_hidden: two lines, the root's and the file's
C12_Witness ==
    /\ ppc = "printed"
    /\ ~print_hidden
    /\ ~StartsWith(obj_ft.name.s, ".")
    /\ Len(obj_ft.children) = 2
    /\ \E i \in 1..2 :
          /\ StartsWith(obj_ft.children[i].name.s, ".")
          /\ Len(obj_ft.children[i].children) = 1
          /\ ~StartsWith(obj_ft.children[i].children[1].name.s, ".")
          /\ ~StartsWith(obj_ft.children[3 - i].name.s, ".")
    /\ Len(stdout) = 2

\* line i is the final line printed for the children of its directory
FinalAtLevel(out, i) == ~\E j \in 1..Len(out) : Siblings(out, i, j)

\* the line at depth k that line j is nested in
AncestorLine(out, j, k) ==
    CHOOSE a \in 1..(j - 1) :
        /\ Depth(out[a]) = k
        /\ \A b \in (a + 1)..(j - 1) : Depth(out[b]) # k

\* C13: among the lines printed for the children of one directory, the final
\* one and no other carries the last-child connector, and what is beneath a
\* line is indented with three spaces when that line was the final one at its
\* level and with the bar otherwise; also when print_hidden is off and some
\* children are hidden.
C13_ConnectorsFollowOutput ==
    ppc = "printed" =>
        \A j \in 1..Len(stdout) :
            /\ ConnectorOf(stdout[j]) =
                   IF FinalAtLevel(stdout, j) THEN LAST_CONNECTOR ELSE CONNECTOR
            /\ \A k \in 0..(Depth(stdout[j]) - 1) :
                   IndentOf(stdout[j], k) =
                       IF FinalAtLevel(stdout, AncestorLine(stdout, j, k))
                       THEN LAST_INDENT ELSE BAR_INDENT

\* the same with every node shown, where the last child is always printed
ConnectorsWhenAllShown == print_hidden => C13_ConnectorsFollowOutput

=============================================================================
